---- MODULE Spec2Model ----
(***************************************************************************)
(* Boundary matching and geometric validation of the living-lab GeoJSON    *)
(* pipeline.                                                               *)
(*                                                                         *)
(*   CityBoundaryValidator  (geojson_validator.py)  cached single search    *)
(*   BoundaryPlotter        (plot_boundary_validation.py)  name variants,   *)
(*                          multi-candidate scoring resolver               *)
(*   GeoJSONValidator       (geojson_validator.py)  the checks of one file, *)
(*                          the report, the loop over a directory          *)
(*                                                                         *)
(* Areas are in whole square kilometres (the code holds square metres as a *)
(* float); scores are held times ten, so that                              *)
(* 100 - |area_m2 - 200e6| / 10e6  becomes  1000 - |area_km2 - 200|.       *)
(* Strings are TLA+ strings; str.lower() and the substring test `in` are   *)
(* tables over the finite vocabulary of the model.                         *)
(***************************************************************************)
EXTENDS Integers, Sequences, FiniteSets, TLC

VARIABLES
    \* CityBoundaryValidator
    cache,              \* self.cache: cache_key -> (cached_data, timestamp)
    now,                \* time.time()
    lastCall,           \* history: the last get_city_boundary call and the one before
    \* BoundaryPlotter.get_city_boundary
    pc,                 \* position in the resolver
    city,               \* city_name
    discovered_names,   \* result of discover_local_names
    city_variations,    \* the ordered query variants
    idx,                \* index of the variant the loop is at
    best_boundary,      \* best candidate so far
    best_area,          \* its score (times ten)
    seen,               \* history: every result processed, in order
    outcomes,           \* history: per variant, "ok" or "fail"
    ret,                \* return value of the resolver
    \* GeoJSONValidator
    report,             \* the FileValidationReport of the last file validated
    validated,          \* history: the file, its content and the boundary answer
    bpc,                \* position in validate_all_files
    geojson_files,      \* the files of the directory, in the order glob gives them
    todo,               \* the files the loop has still to visit
    validation_reports, \* the list validate_all_files builds
    batch_inputs,       \* history: per report, the content of the file and whether
                        \* validate_file raised
    returned,           \* what the caller of validate_all_files got from it
    \* CKANUploader
    ckan,               \* the CKAN instance: dataset name -> its resources
    upc,                \* position in upload_validated_files
    only_passed,        \* the argument of upload_validated_files
    valid_reports,      \* the reports the loop has still to visit
    upload_results,     \* the list upload_validated_files builds
    last_upload,        \* history: the report of the last pass and the calls made for it
    \* WorkflowOrchestrator.run_complete_workflow
    wpc,                \* position in run_complete_workflow
    wf                  \* its arguments, configuration, locals and the phases run

cacheVars == <<cache, now, lastCall>>
resVars == <<pc, city, discovered_names, city_variations, idx,
             best_boundary, best_area, seen, outcomes, ret>>
valVars == <<report, validated, bpc, geojson_files, todo, validation_reports,
             batch_inputs, returned>>
upVars == <<ckan, upc, only_passed, valid_reports, upload_results, last_upload>>
wfVars == <<wpc, wf>>
vars == <<cacheVars, resVars, valVars, upVars, wfVars>>

(***************************************************************************)
(* Bounds of the model.                                                    *)
(***************************************************************************)
MaxTime == 4          \* the clock runs 0..MaxTime
CacheTimeout == 2     \* cache_timeout given to the constructor, in ticks
MaxSeen == 2          \* results returned in total during one resolution
MaxResults == 2       \* results in one response (the code asks for 5)
MaxVariants == 3      \* resolutions modelled step by step have at most this many variants
MaxDiscovered == 3    \* names the pre-query reports (or at least NameListCap of them)

\* Python's None, a key that is not in the cache, no call made yet
None == [none |-> TRUE]
NoEntry == [absent |-> TRUE]
NoCall == [nocall |-> TRUE]

\* A search: an exception (timeout, non-2xx status, malformed payload), or the
\* list data['features'] of the payload
Fail == [ok |-> FALSE, features |-> <<>>]

Found(fs) == [ok |-> TRUE, features |-> fs]

(***************************************************************************)
(* Strings: str.lower() and `x in s`.                                      *)
(***************************************************************************)
LowerTable ==
    [s \in {"Utrecht", "Göteborg", "Göteborgs Stad", "Gothenburg", "Gemeente Utrecht",
            "Paris", "Heidelberg", "Barcelona", "Budapest", "Stockholms Stad",
            "Heidelberg, Germany"} |->
        CASE s = "Utrecht" -> "utrecht"
          [] s = "Göteborg" -> "göteborg"
          [] s = "Göteborgs Stad" -> "göteborgs stad"
          [] s = "Gothenburg" -> "gothenburg"
          [] s = "Gemeente Utrecht" -> "gemeente utrecht"
          [] s = "Paris" -> "paris"
          [] s = "Heidelberg" -> "heidelberg"
          [] s = "Barcelona" -> "barcelona"
          [] s = "Budapest" -> "budapest"
          [] s = "Stockholms Stad" -> "stockholms stad"
          [] s = "Heidelberg, Germany" -> "heidelberg, germany"]

Lower(s) == IF s \in DOMAIN LowerTable THEN LowerTable[s] ELSE s

\* the (lower-cased string, keyword) pairs with keyword a substring of the string
Substr ==
    { <<"utrecht", "utrecht">>, <<"gemeente utrecht", "utrecht">>,
      <<"heidelberg, germany", "heidelberg">>,
      <<"göteborg", "göteborg">>, <<"göteborgs stad", "göteborg">>,
      <<"göteborgs stad", "stad">>, <<"gothenburg", "gothenburg">>,
      <<"stockholms stad", "stockholm">>, <<"stockholms stad", "stad">>,
      <<"heidelberg", "heidelberg">>, <<"barcelona", "barcelona">>,
      <<"budapest", "budapest">>,
      <<"city of utrecht", "utrecht">>, <<"city of utrecht", "city">>,
      <<"city", "city">> }

Contains(s, kw) == <<s, kw>> \in Substr

AnyIn(s, kws) == \E kw \in kws : Contains(s, kw)

(***************************************************************************)
(* Search results.  A result is a GeoJSON feature: its geometry type, the  *)
(* properties the code reads, and the projected area of its geometry.      *)
(* `bad` marks a feature whose processing raises (GeoDataFrame.from_features*)
(* or to_crs fails on it, or a property is not a string).                  *)
(***************************************************************************)
Missing == "<missing>"

Feature(g, t, c, d, n, a) ==
    [geom |-> g, type |-> t, class |-> c, display_name |-> d, name |-> n,
     area |-> a, bad |-> FALSE]

K1 == Feature("Polygon", "city", "place", "Heidelberg, Germany", "Heidelberg", 100)
K2 == Feature("MultiPolygon", "city", "place", "Heidelberg, Germany", "Heidelberg", 100)
K3 == Feature("GeometryCollection", "city", "place", "Heidelberg, Germany", "Heidelberg", 200)
K4 == Feature("Point", "city", "place", "Heidelberg, Germany", "Heidelberg", 0)
K5 == Feature("Polygon", "administrative", "boundary", "Göteborgs Stad", "Göteborgs Stad", 3000)
K6 == Feature("Polygon", "administrative", "boundary", "Göteborgs Stad", Missing, 3000)
KBad == [geom |-> "Polygon", type |-> Missing, class |-> Missing,
         display_name |-> Missing, name |-> Missing, area |-> 0, bad |-> TRUE]

Candidates == {K1, K2, K3, K4, K5, K6, KBad}

\* props.get(field, '')
Prop(f, field) == IF f[field] = Missing THEN "" ELSE f[field]

(***************************************************************************)
(* CityBoundaryValidator                                                   *)
(***************************************************************************)
CityNames == {"Heidelberg", "heidelberg", "paris"}

CacheKeys == {Lower(n) : n \in CityNames}

\* what the single search of the validator may come back with: an error
\* (timeout, non-2xx, malformed payload), no feature, or one feature (limit 1)
ValidatorFeatures == {K1, K4}

ValidatorResponses == {Fail, Found(<<>>)} \cup {Found(<<f>>) : f \in ValidatorFeatures}

\* the test with <= in place of <: an entry is served one tick too long
IsFreshLate(timestamp, t) == t - timestamp <= CacheTimeout

\* geojson_validator.py:69, the cached value is served while it is fresh
IsFresh(timestamp, t) == t - timestamp < CacheTimeout

CacheHit(key, t) ==
    /\ cache[key] # NoEntry
    /\ IsFresh(cache[key].ts, t)

\* geojson_validator.py:72-97, what the search yields: data['features'][0] or None
SearchOutcome(resp) ==
    IF ~resp.ok THEN None
    ELSE IF Len(resp.features) = 0 THEN None
    ELSE resp.features[1]

\* a variant that writes the outcome of every search, found or not
CacheAfterSearchAlways(key, resp, t) ==
    [cache EXCEPT ![key] = [data |-> SearchOutcome(resp), ts |-> t]]

\* geojson_validator.py:88-91, only a found feature is written to the cache
CacheAfterSearch(key, resp, t) ==
    IF SearchOutcome(resp) # None
    THEN [cache EXCEPT ![key] = [data |-> resp.features[1], ts |-> t]]
    ELSE cache

\* geojson_validator.py:62-97
\* resp is the answer the search gives if it is issued.
GetCityBoundaryCall(city_name, resp) ==
    LET cache_key == Lower(city_name)
        hit == CacheHit(cache_key, now)
        value == IF hit THEN cache[cache_key].data ELSE SearchOutcome(resp)
    IN  /\ cache' = IF hit THEN cache ELSE CacheAfterSearch(cache_key, resp, now)
        /\ lastCall' = [name |-> city_name, key |-> cache_key, t |-> now,
                        searches |-> IF hit THEN 0 ELSE 1,
                        resp |-> IF hit THEN None ELSE resp,
                        ret |-> value,
                        entry |-> cache[cache_key],
                        prev |-> IF lastCall = NoCall THEN NoCall
                                 ELSE [name |-> lastCall.name, t |-> lastCall.t,
                                       searches |-> lastCall.searches]]

GetCityBoundary ==
    \E city_name \in CityNames, resp \in ValidatorResponses :
        /\ GetCityBoundaryCall(city_name, resp)
        /\ UNCHANGED <<now, resVars, valVars, upVars, wfVars>>

\* the wall clock advances between calls
Tick ==
    /\ now < MaxTime
    /\ now' = now + 1
    /\ UNCHANGED <<cache, lastCall, resVars, valVars, upVars, wfVars>>

InitCache ==
    /\ cache = [k \in CacheKeys |-> NoEntry]
    /\ now = 0
    /\ lastCall = NoCall

InitRes ==
    /\ pc = "idle"
    /\ city = ""
    /\ discovered_names = <<>>
    /\ city_variations = <<>>
    /\ idx = 0
    /\ best_boundary = None
    /\ best_area = 0
    /\ seen = <<>>
    /\ outcomes = <<>>
    /\ ret = None

InitVal ==
    /\ report = None
    /\ validated = None
    /\ bpc = "idle"
    /\ geojson_files = <<>>
    /\ todo = <<>>
    /\ validation_reports = <<>>
    /\ batch_inputs = <<>>
    /\ returned = None

InitUp ==
    /\ ckan = [n \in {} |-> NoEntry]
    /\ upc = "idle"
    /\ only_passed = TRUE
    /\ valid_reports = <<>>
    /\ upload_results = <<>>
    /\ last_upload = None

InitWf ==
    /\ wpc = "idle"
    /\ wf = None

Init == InitCache /\ InitRes /\ InitVal /\ InitUp /\ InitWf

NextCache == GetCityBoundary \/ Tick

SpecCache == Init /\ [][NextCache]_vars

(***************************************************************************)
(* BoundaryPlotter: the name variants                                      *)
(***************************************************************************)
NameListCap == 10

\* names the pre-query of discover_local_names may report, in a fixed order
NamePool ==
    <<"utrecht", "Utrecht", "Gemeente Utrecht", "paris", "Paris", "gothenburg",
      "Göteborg", "Göteborgs Stad", "Gothenburg", "Heidelberg", "Barcelona",
      "Budapest">>

Cities == {"utrecht", "paris", "gothenburg", "Göteborg"}

RECURSIVE Reverse(_)
Reverse(q) == IF q = <<>> THEN <<>> ELSE Append(Reverse(Tail(q)), Head(q))

InSeq(x, q) == \E i \in 1..Len(q) : q[i] = x

Take(q, n) == IF Len(q) <= n THEN q ELSE SubSeq(q, 1, n)

\* plot_boundary_validation.py:79-82, the query first, then every other name once
RECURSIVE AppendNew(_, _)
AppendNew(name_list, names) ==
    IF names = <<>> THEN name_list
    ELSE AppendNew(IF InSeq(Head(names), name_list)
                   THEN name_list ELSE Append(name_list, Head(names)),
                   Tail(names))

\* discover_local_names without the cut of line 85
DiscoverLocalNamesUncut(city_name, resp) ==
    IF ~resp.ok THEN <<city_name>>
    ELSE AppendNew(<<city_name>>, resp.features)

\* plot_boundary_validation.py:34-89
\* resp.features is the set discovered_names in the order the loop iterates it
DiscoverLocalNames(city_name, resp) ==
    IF ~resp.ok THEN <<city_name>>
    ELSE Take(AppendNew(<<city_name>>, resp.features), NameListCap)

\* plot_boundary_validation.py:101-112, the ten entries one name contributes
Expand(name) ==
    LET low == Lower(name)
        swe == AnyIn(low, {"göteborg", "gothenburg"})
        nl == AnyIn(low, {"utrecht"})
    IN  << name,
           IF swe THEN name \o ", Sweden" ELSE name,
           IF nl THEN name \o ", Netherlands" ELSE name,
           IF AnyIn(low, {"heidelberg"}) THEN name \o ", Germany" ELSE name,
           IF AnyIn(low, {"barcelona"}) THEN name \o ", Spain" ELSE name,
           IF AnyIn(low, {"budapest"}) THEN name \o ", Hungary" ELSE name,
           name \o " municipality",
           IF swe THEN name \o " kommun" ELSE name,
           IF nl THEN name \o " gemeente" ELSE name,
           IF swe THEN name \o "s Stad" ELSE name >>

RECURSIVE ExpandAll(_)
ExpandAll(names) ==
    IF names = <<>> THEN <<>> ELSE Expand(Head(names)) \o ExpandAll(Tail(names))

\* list.remove: the first occurrence only
RemoveFirst(q, x) ==
    LET i == CHOOSE k \in 1..Len(q) : q[k] = x /\ \A j \in 1..(k - 1) : q[j] # x
    IN  SubSeq(q, 1, i - 1) \o SubSeq(q, i + 1, Len(q))

\* plot_boundary_validation.py:118-121, one priority name moved to the front
ToFront(q, pname) ==
    IF InSeq(pname, q) THEN <<pname>> \o RemoveFirst(q, pname) ELSE <<pname>> \o q

\* plot_boundary_validation.py:115-121
Prioritize(city_name, q) ==
    IF Lower(city_name) \in {"gothenburg", "göteborg"}
    THEN ToFront(ToFront(ToFront(q, "Göteborg, Sweden"), "Göteborgs Stad"), "Göteborg")
    ELSE q

\* plot_boundary_validation.py:124, list(dict.fromkeys(...)): the first
\* occurrence of every string, in order (computed by halves)
RECURSIVE Dedup(_)
Dedup(q) ==
    IF Len(q) <= 1 THEN q
    ELSE LET h == Len(q) \div 2
             left == Dedup(SubSeq(q, 1, h))
             right == Dedup(SubSeq(q, h + 1, Len(q)))
         IN  left \o SelectSeq(right, LAMBDA x : ~InSeq(x, left))

\* plot_boundary_validation.py:95-124
CityVariations(city_name, names) == Dedup(Prioritize(city_name, ExpandAll(names)))

\* the orders in which the loop may meet the set of discovered names
PoolOrder(S) == SelectSeq(NamePool, LAMBDA n : n \in S)

\* the pre-query fails, or reports a few names, or so many that the cap cuts
DiscoveredSets ==
    {S \in SUBSET {NamePool[i] : i \in 1..Len(NamePool)} :
        Cardinality(S) <= MaxDiscovered \/ Cardinality(S) >= NameListCap}

DiscoveryResponses ==
    {Fail} \cup {Found(PoolOrder(S)) : S \in DiscoveredSets}
           \cup {Found(Reverse(PoolOrder(S))) : S \in DiscoveredSets}

\* plot_boundary_validation.py:95-124, up to the search loop
GenerateVariants ==
    \E city_name \in Cities, resp \in DiscoveryResponses :
        /\ pc = "idle"
        /\ city' = city_name
        /\ discovered_names' = DiscoverLocalNames(city_name, resp)
        /\ city_variations' = CityVariations(city_name, DiscoverLocalNames(city_name, resp))
        /\ pc' = "generated"
        /\ UNCHANGED <<idx, best_boundary, best_area, seen, outcomes, ret, cacheVars, valVars, upVars, wfVars>>

NextVariants == GenerateVariants

SpecVariants == Init /\ [][NextVariants]_vars

(***************************************************************************)
(* BoundaryPlotter: scoring of one search result                           *)
(***************************************************************************)
MinAreaKm2 == 10
MaxAreaKm2 == 2000
MaxAreaLargeKm2 == 4000
SmallAdminKm2 == 500
PeakAreaKm2 == 200

\* plot_boundary_validation.py:179, 196, 207: a Swedish municipality by its name
IsLargeMunicipality(f) ==
    LET feature_name == Lower(Prop(f, "name"))
    IN  Contains(feature_name, "stad")
        /\ AnyIn(feature_name, {"göteborg", "stockholm", "malmö"})

\* the filter without the test of the geometry type
IsSuitableGeometryAny(f) == TRUE

\* plot_boundary_validation.py:176
IsSuitableGeometry(f) == f.geom \in {"Polygon", "MultiPolygon"}

\* plot_boundary_validation.py:179-183
IsReasonableSize(f) ==
    IF IsLargeMunicipality(f)
    THEN MinAreaKm2 < f.area /\ f.area < MaxAreaLargeKm2
    ELSE MinAreaKm2 < f.area /\ f.area < MaxAreaKm2

\* plot_boundary_validation.py:186-203, times ten
TypeScore(f) ==
    LET feature_type == Lower(Prop(f, "type"))
        osm_class == Lower(Prop(f, "class"))
        display_name == Lower(Prop(f, "display_name"))
    IN  IF feature_type = "city" THEN 1000
        ELSE IF osm_class = "place" /\ Contains(display_name, "city") THEN 900
        ELSE IF feature_type \in {"town", "village"} THEN 800
        ELSE IF feature_type = "administrative"
             THEN IF IsLargeMunicipality(f) THEN 950
                  ELSE IF f.area < SmallAdminKm2 THEN 700
                  ELSE 300
        ELSE 500

Abs(x) == IF x < 0 THEN -x ELSE x

Max(a, b) == IF a >= b THEN a ELSE b

\* the size score without the floor at zero
SizeScoreUnclamped(f) ==
    IF IsLargeMunicipality(f) THEN 500
    ELSE 1000 - Abs(f.area - PeakAreaKm2)

\* plot_boundary_validation.py:207-212, times ten
SizeScore(f) ==
    IF IsLargeMunicipality(f) THEN 500
    ELSE Max(0, 1000 - Abs(f.area - PeakAreaKm2))

\* a score that also looks at the geometry type
CombinedScoreByGeometry(f) ==
    TypeScore(f) + SizeScore(f) + (IF f.geom = "MultiPolygon" THEN 1 ELSE 0)

\* plot_boundary_validation.py:214
CombinedScore(f) == TypeScore(f) + SizeScore(f)

\* the comparison with >= in place of >: the last maximum would win
IsBetterOrEqual(score, best) == score >= best

\* plot_boundary_validation.py:218-219, the comparison with the best score so far
IsBetter(score, best) == score > best

\* plot_boundary_validation.py:150-229, one result of a response
\* b is [boundary, score]: best_boundary and best_area
ProcessFeature(f, b) ==
    IF f.bad THEN b
    ELSE IF IsSuitableGeometry(f) /\ IsReasonableSize(f)
            /\ IsBetter(CombinedScore(f), b.score)
         THEN [boundary |-> f, score |-> CombinedScore(f)]
         ELSE b

\* plot_boundary_validation.py:149, the loop over data.get('features', [])
RECURSIVE ProcessFeatures(_, _)
ProcessFeatures(fs, b) ==
    IF fs = <<>> THEN b
    ELSE ProcessFeatures(Tail(fs), ProcessFeature(Head(fs), b))

\* what the history keeps of one processed result: the variant it came for,
\* the result, and the score the loop computed for it (-1 when it raised)
SeenEntry(v, f) ==
    [v |-> v, f |-> f, score |-> IF f.bad THEN -1 ELSE CombinedScore(f)]

(***************************************************************************)
(* BoundaryPlotter.get_city_boundary, one step per search                  *)
(***************************************************************************)
\* the responses of one polygon search: at most MaxResults results
FeatureLists ==
    UNION {[1..n -> Candidates] : n \in 0..MaxResults}

\* the pre-query of a resolution that is followed step by step
StepDiscoveryResponses == {Fail, Found(<<"Paris">>)}

StepCities == {"paris", "heidelberg"}

\* plot_boundary_validation.py:91-127
Start ==
    \E city_name \in StepCities, resp \in StepDiscoveryResponses :
        LET names == DiscoverLocalNames(city_name, resp)
            variations == CityVariations(city_name, names)
        IN  /\ pc = "idle"
            /\ Len(variations) <= MaxVariants
            /\ city' = city_name
            /\ discovered_names' = names
            /\ city_variations' = variations
            /\ best_boundary' = None
            /\ best_area' = 0
            /\ idx' = 1
            /\ pc' = "search"
            /\ UNCHANGED <<seen, outcomes, ret, cacheVars, valVars, upVars, wfVars>>

\* plot_boundary_validation.py:129-229, the search of one variant answers
SearchOk ==
    \E fs \in FeatureLists :
        LET b == ProcessFeatures(fs, [boundary |-> best_boundary, score |-> best_area])
        IN  /\ pc = "search"
            /\ idx <= Len(city_variations)
            /\ Len(seen) + Len(fs) <= MaxSeen
            /\ best_boundary' = b.boundary
            /\ best_area' = b.score
            /\ seen' = seen \o [i \in 1..Len(fs) |-> SeenEntry(idx, fs[i])]
            /\ outcomes' = Append(outcomes, "ok")
            /\ idx' = idx + 1
            /\ UNCHANGED <<pc, city, discovered_names, city_variations, ret, cacheVars, valVars, upVars, wfVars>>

\* a failure that ends the loop instead
AbortOnFailure(i, n) == n + 1

\* a failure after which the same variant is searched again
RetryOnFailure(i, n) == i

\* plot_boundary_validation.py:231-233, `continue`: the loop goes on with the
\* next of the n variants
NextAfterFailure(i, n) == i + 1

\* plot_boundary_validation.py:143-146, 231-233: the search of one variant raises
SearchFail ==
    /\ pc = "search"
    /\ idx <= Len(city_variations)
    /\ outcomes' = Append(outcomes, "fail")
    /\ idx' = NextAfterFailure(idx, Len(city_variations))
    /\ UNCHANGED <<pc, city, discovered_names, city_variations, best_boundary,
                   best_area, seen, ret, cacheVars, valVars, upVars, wfVars>>

\* plot_boundary_validation.py:235-244
Finish ==
    /\ pc = "search"
    /\ idx > Len(city_variations)
    /\ ret' = best_boundary
    /\ pc' = "done"
    /\ UNCHANGED <<city, discovered_names, city_variations, idx, best_boundary,
                   best_area, seen, outcomes, cacheVars, valVars, upVars, wfVars>>

\* the results one search may return, for the scoring alone: every
\* combination of the fields the score reads
ScoreGrid ==
    {Feature(g, t, c, d, n, a) :
        g \in {"Polygon", "Point"},
        t \in {"city", "town", "village", "administrative", "suburb", Missing},
        c \in {"place", "boundary", Missing},
        d \in {"city of utrecht", "Heidelberg, Germany", Missing},
        n \in {"Göteborgs Stad", "Heidelberg", Missing},
        a \in {5, 100, 499, 500, 1300, 3000}}

\* plot_boundary_validation.py:150-229, the first result of the first search
\* of a resolution is processed
ScoreResult ==
    \E f \in ScoreGrid :
        LET b == ProcessFeature(f, [boundary |-> None, score |-> 0])
        IN  /\ pc = "idle"
            /\ pc' = "scored"
            /\ best_boundary' = b.boundary
            /\ best_area' = b.score
            /\ seen' = <<SeenEntry(1, f)>>
            /\ UNCHANGED <<city, discovered_names, city_variations, idx, outcomes,
                           ret, cacheVars, valVars, upVars, wfVars>>

NextScore == ScoreResult

SpecScore == Init /\ [][NextScore]_vars

\* the results the search of variant v returned, in order
ResultsOf(v) ==
    LET own == SelectSeq(seen, LAMBDA e : e.v = v)
    IN  [i \in 1..Len(own) |-> own[i].f]

\* index of a query among the variants (0: not among them)
VariantIndex(q) ==
    IF InSeq(q, city_variations)
    THEN CHOOSE i \in 1..Len(city_variations) : city_variations[i] = q
    ELSE 0

\* the answer the same search service gives to the validator's query for city:
\* the answer it gave the resolver for that query, cut to limit 1
ValidatorResponseFor(q) ==
    LET v == VariantIndex(q)
    IN  IF v = 0 \/ outcomes[v] = "fail" THEN Fail
        ELSE Found(Take(ResultsOf(v), 1))

\* geojson_validator.py:99-101, the containment check asks (once) for the
\* boundary of the city the resolver has just resolved
ValidatorLookup ==
    /\ pc = "done"
    /\ lastCall = NoCall
    /\ GetCityBoundaryCall(city, ValidatorResponseFor(city))
    /\ UNCHANGED <<now, resVars, valVars, upVars, wfVars>>

NextResolve == Start \/ SearchOk \/ SearchFail \/ Finish \/ ValidatorLookup

SpecResolve == Init /\ [][NextResolve]_vars

(***************************************************************************)
(* GeoJSONValidator: the checks of one file                                *)
(*                                                                         *)
(* A ValidationResult keeps test_name and passed; of message and details   *)
(* it keeps a reason tag and one count (features_outside, or the number    *)
(* the message reports).                                                   *)
(***************************************************************************)
\* geojson_validator.py:19-25
ValidationResult(test_name, passed, reason, count) ==
    [test_name |-> test_name, passed |-> passed, reason |-> reason, count |-> count]

\* geojson_validator.py:167-178, the keys the modelled checks read
Config ==
    [min_feature_count |-> 1, max_feature_count |-> 10000,
     required_crs |-> "EPSG:4326"]

\* the rows of a GeoDataFrame: the geometry (null, empty, invalid or valid),
\* its relation to the boundary of the city, and whether its coordinates
\* lie in the configured European envelope
Row(g, r, e) == [geometry |-> g, relation |-> r, european |-> e]
RowWithin == Row("valid", "within", TRUE)
RowTouching == Row("valid", "touches", TRUE)
RowOutside == Row("valid", "outside", TRUE)
RowOverseas == Row("valid", "outside", FALSE)
RowInvalid == Row("invalid", "within", TRUE)
RowNull == Row("null", "none", TRUE)
RowEmpty == Row("empty", "none", TRUE)

\* the number of true entries of a sequence of flags (Series.sum of a boolean
\* series, sum(1 for ... if ...))
Count(flags) == Cardinality({i \in DOMAIN flags : flags[i]})

\* Series.isnull, is_empty, ~is_valid (a missing geometry is not valid and
\* not empty), intersects and within (false for missing and empty geometry)
IsNull(row) == row.geometry = "null"
IsEmpty(row) == row.geometry = "empty"
IsInvalid(row) == row.geometry \in {"invalid", "null"}
Intersects(row) == row.relation \in {"within", "touches"}
Within(row) == row.relation = "within"
HasCoordinates(row) == row.geometry \in {"valid", "invalid"}

\* geojson_validator.py:352-368
FeatureCountResult(gdf) ==
    LET feature_count == Len(gdf.rows)
    IN  IF feature_count < Config.min_feature_count
        THEN ValidationResult("feature_count", FALSE, "too_few", feature_count)
        ELSE IF feature_count > Config.max_feature_count
        THEN ValidationResult("feature_count", FALSE, "too_many", feature_count)
        ELSE ValidationResult("feature_count", TRUE, "ok", feature_count)

\* geojson_validator.py:370-383
CoordinateSystemResult(gdf) ==
    IF gdf.crs = "none"
    THEN ValidationResult("coordinate_system", FALSE, "no_crs", 0)
    ELSE IF gdf.crs # Config.required_crs
    THEN ValidationResult("coordinate_system", FALSE, "wrong_crs", 0)
    ELSE ValidationResult("coordinate_system", TRUE, "ok", 0)

\* geojson_validator.py:385-394
NullGeometriesResult(gdf) ==
    LET null_geoms == Count([i \in DOMAIN gdf.rows |-> IsNull(gdf.rows[i])])
    IN  IF null_geoms > 0
        THEN ValidationResult("null_geometries", FALSE, "null", null_geoms)
        ELSE ValidationResult("null_geometries", TRUE, "ok", 0)

\* geojson_validator.py:396-405
EmptyGeometriesResult(gdf) ==
    LET empty_geoms == Count([i \in DOMAIN gdf.rows |-> IsEmpty(gdf.rows[i])])
    IN  IF empty_geoms > 0
        THEN ValidationResult("empty_geometries", FALSE, "empty", empty_geoms)
        ELSE ValidationResult("empty_geometries", TRUE, "ok", 0)

\* geojson_validator.py:407-421
GeometryValidityResult(gdf, fault) ==
    LET invalid_geoms == Count([i \in DOMAIN gdf.rows |-> IsInvalid(gdf.rows[i])])
    IN  IF fault = "geometry_validity"
        THEN ValidationResult("geometry_validity", FALSE, "error", 0)
        ELSE IF invalid_geoms > 0
        THEN ValidationResult("geometry_validity", FALSE, "invalid", invalid_geoms)
        ELSE ValidationResult("geometry_validity", TRUE, "ok", 0)

\* geojson_validator.py:425-431, total_bounds skips the rows without
\* coordinates and is NaN when no row has any; a comparison with NaN is false
WithinBounds(gdf) ==
    /\ \E i \in DOMAIN gdf.rows : HasCoordinates(gdf.rows[i])
    /\ \A i \in DOMAIN gdf.rows : HasCoordinates(gdf.rows[i]) => gdf.rows[i].european

\* geojson_validator.py:423-446
EuropeanBoundsResult(gdf, fault) ==
    IF fault = "european_bounds"
    THEN ValidationResult("european_bounds", FALSE, "error", 0)
    ELSE IF WithinBounds(gdf)
    THEN ValidationResult("european_bounds", TRUE, "ok", 0)
    ELSE ValidationResult("european_bounds", FALSE, "outside", 0)

\* the checks of validate_geodataframe that run outside any try block
\* (geojson_validator.py:352-405): an exception raised there leaves the method
Unguarded == {"feature_count", "coordinate_system", "null_geometries",
              "empty_geometries"}

\* geojson_validator.py:348-449
\* the method either raises (and returns nothing) or returns its six results
ValidateGeodataframe(gdf, fault) ==
    IF fault \in Unguarded
    THEN [raised |-> TRUE, results |-> <<>>]
    ELSE [raised |-> FALSE,
          results |-> <<FeatureCountResult(gdf), CoordinateSystemResult(gdf),
                        NullGeometriesResult(gdf), EmptyGeometriesResult(gdf),
                        GeometryValidityResult(gdf, fault),
                        EuropeanBoundsResult(gdf, fault)>>]

\* a variant that lets the check pass when no boundary was retrieved
ValidateCoordinatesInCityLenientOnNone(gdf, boundary_data, fault) ==
    LET intersect_count == Count([i \in DOMAIN gdf.rows |-> Intersects(gdf.rows[i])])
        total_features == Len(gdf.rows)
    IN  IF boundary_data = None
        THEN ValidationResult("geographic_boundary_check", TRUE, "api_unavailable", 0)
        ELSE IF fault = "geographic_boundary_check"
        THEN ValidationResult("geographic_boundary_check", FALSE, "error", 0)
        ELSE IF intersect_count = total_features
        THEN ValidationResult("geographic_boundary_check", TRUE, "ok", 0)
        ELSE ValidationResult("geographic_boundary_check", FALSE, "outside",
                              total_features - intersect_count)

\* a variant with the strict policy: every feature within the boundary
ValidateCoordinatesInCityStrict(gdf, boundary_data, fault) ==
    LET within_count == Count([i \in DOMAIN gdf.rows |-> Within(gdf.rows[i])])
        total_features == Len(gdf.rows)
    IN  IF boundary_data = None
        THEN ValidationResult("geographic_boundary_check", FALSE, "api_unavailable", 0)
        ELSE IF fault = "geographic_boundary_check"
        THEN ValidationResult("geographic_boundary_check", FALSE, "error", 0)
        ELSE IF within_count = total_features
        THEN ValidationResult("geographic_boundary_check", TRUE, "ok", 0)
        ELSE ValidationResult("geographic_boundary_check", FALSE, "outside",
                              total_features - within_count)

\* geojson_validator.py:99-156
\* boundary_data is what get_city_boundary returned
ValidateCoordinatesInCity(gdf, boundary_data, fault) ==
    LET intersect_count == Count([i \in DOMAIN gdf.rows |-> Intersects(gdf.rows[i])])
        total_features == Len(gdf.rows)
        outside_count == total_features - intersect_count
    IN  IF boundary_data = None
        THEN ValidationResult("geographic_boundary_check", FALSE, "api_unavailable", 0)
        ELSE IF fault = "geographic_boundary_check"
        THEN ValidationResult("geographic_boundary_check", FALSE, "error", 0)
        ELSE IF intersect_count = total_features
        THEN ValidationResult("geographic_boundary_check", TRUE, "ok", 0)
        ELSE ValidationResult("geographic_boundary_check", FALSE, "outside", outside_count)

\* A file of the data directory: its name, and the lowercased name without
\* ".geojson" split at "_".
File(name, parts) == [name |-> name, parts |-> parts]
FileParis == File("pilot1_paris.geojson", <<"pilot1", "paris">>)
FileUnknown == File("pilot3_unknown.geojson", <<"pilot3", "unknown">>)
FileLab == File("lab_heidelberg.geojson", <<"lab", "heidelberg">>)
FileNotes == File("notes.geojson", <<"notes">>)

\* the digits of r'pilot(\d+)' at the start of a part, "" when it does not match
PilotDigits(part) ==
    CASE part = "pilot1" -> "1"
      [] part = "pilot3" -> "3"
      [] OTHER -> ""

\* re.search(r'\d+', part), "" when the part has no digit
AnyDigits(part) == PilotDigits(part)

\* sep.join(parts[from:])
RECURSIVE Join(_, _, _)
Join(parts, from, sep) ==
    IF from > Len(parts) THEN ""
    ELSE IF from = Len(parts) THEN parts[from]
    ELSE parts[from] \o sep \o Join(parts, from + 1, sep)

\* geojson_validator.py:255-265, re.match(r'pilot\d+_.+\.geojson$')
FollowsConvention(file) ==
    Len(file.parts) >= 2 /\ PilotDigits(file.parts[1]) # ""

\* geojson_validator.py:195-220
ExtractCityAndPilot(file) ==
    IF FollowsConvention(file)
    THEN [city_name |-> Join(file.parts, 2, ""), pilot_number |-> PilotDigits(file.parts[1])]
    ELSE IF Len(file.parts) >= 2
    THEN [city_name |-> Join(file.parts, 2, "_"),
          pilot_number |-> IF AnyDigits(file.parts[1]) # "" THEN AnyDigits(file.parts[1])
                           ELSE "unknown"]
    ELSE [city_name |-> "unknown", pilot_number |-> "unknown"]

\* What a file holds, as far as the checks see it: whether stat() succeeds,
\* the size class, what json.load makes of it ("valid": a FeatureCollection
\* with well-formed features, "feature": a single Feature object, "invalid":
\* not JSON, "unreadable": open() fails), whether gpd.read_file loads it, the
\* frame it loads to, and the check that raises an exception, if any.
Content(stat, size, json, loads, gdf, fault) ==
    [stat |-> stat, size |-> size, json |-> json, loads |-> loads,
     gdf |-> gdf, fault |-> fault]

\* geojson_validator.py:222-267, for a file that stat() found
ValidateFileSystem(file, content) ==
    << ValidationResult("file_existence", TRUE, "ok", 0),
       IF content.size = "large"
       THEN ValidationResult("file_size", FALSE, "too_large", 0)
       ELSE IF content.size = "empty"
       THEN ValidationResult("file_size", FALSE, "empty", 0)
       ELSE ValidationResult("file_size", TRUE, "ok", 0),
       IF FollowsConvention(file)
       THEN ValidationResult("filename_convention", TRUE, "ok", 0)
       ELSE ValidationResult("filename_convention", FALSE, "convention", 0) >>

\* geojson_validator.py:269-346
ValidateJsonStructure(content) ==
    CASE content.json = "unreadable" ->
            << ValidationResult("json_structure", FALSE, "error", 0) >>
      [] content.json = "invalid" ->
            << ValidationResult("json_validity", FALSE, "invalid", 0) >>
      [] content.json = "feature" ->
            << ValidationResult("json_validity", TRUE, "ok", 0),
               ValidationResult("geojson_type_field", TRUE, "ok", 0),
               ValidationResult("geojson_features_field", FALSE, "missing", 0),
               ValidationResult("geojson_type", FALSE, "invalid_type", 0),
               ValidationResult("features_array", TRUE, "ok", 0) >>
      [] OTHER ->
            << ValidationResult("json_validity", TRUE, "ok", 0),
               ValidationResult("geojson_type_field", TRUE, "ok", 0),
               ValidationResult("geojson_features_field", TRUE, "ok", 0),
               ValidationResult("geojson_type", TRUE, "ok", 0),
               ValidationResult("features_array", TRUE, "ok", Len(content.gdf.rows)) >>
            \o (IF Len(content.gdf.rows) >= 1
                THEN << ValidationResult("features_structure", TRUE, "ok", 0) >>
                ELSE << >>)

\* a variant that records nothing when the frame cannot be loaded
LoadAndValidateSilent(city_name, content, boundary_data) ==
    LET checked == ValidateGeodataframe(content.gdf, content.fault)
    IN  IF ~content.loads \/ checked.raised
        THEN << >>
        ELSE checked.results \o
             << IF city_name # "unknown"
                THEN ValidateCoordinatesInCity(content.gdf, boundary_data, content.fault)
                ELSE ValidationResult("geographic_boundary_check", FALSE, "unknown_city", 0) >>

\* a variant that skips the containment check when the locality is unknown
LoadAndValidateSkipUnknown(city_name, content, boundary_data) ==
    LET checked == ValidateGeodataframe(content.gdf, content.fault)
    IN  IF ~content.loads \/ checked.raised
        THEN << ValidationResult("geopandas_loading", FALSE, "error", 0) >>
        ELSE checked.results \o
             (IF city_name # "unknown"
              THEN << ValidateCoordinatesInCity(content.gdf, boundary_data, content.fault) >>
              ELSE << >>)

\* geojson_validator.py:472-491, the inner try block of validate_file
LoadAndValidate(city_name, content, boundary_data) ==
    LET checked == ValidateGeodataframe(content.gdf, content.fault)
    IN  IF ~content.loads \/ checked.raised
        THEN << ValidationResult("geopandas_loading", FALSE, "error", 0) >>
        ELSE checked.results \o
             << IF city_name # "unknown"
                THEN ValidateCoordinatesInCity(content.gdf, boundary_data, content.fault)
                ELSE ValidationResult("geographic_boundary_check", FALSE, "unknown_city", 0) >>

\* a variant that records nothing when the file cannot be accessed
AllResultsNoAccessResult(file, content, boundary_data) ==
    IF ~content.stat
    THEN << >>
    ELSE ValidateFileSystem(file, content) \o ValidateJsonStructure(content)
         \o LoadAndValidate(ExtractCityAndPilot(file).city_name, content, boundary_data)

\* geojson_validator.py:462-496
AllResults(file, content, boundary_data) ==
    IF ~content.stat
    THEN << ValidationResult("file_access", FALSE, "error", 0) >>
    ELSE ValidateFileSystem(file, content) \o ValidateJsonStructure(content)
         \o LoadAndValidate(ExtractCityAndPilot(file).city_name, content, boundary_data)

\* geojson_validator.py:479-480, validate_file gets as far as the call of
\* validate_coordinates_in_city, which calls get_city_boundary first
CallsBoundaryValidator(file, content) ==
    /\ content.stat
    /\ content.loads
    /\ ~ValidateGeodataframe(content.gdf, content.fault).raised
    /\ ExtractCityAndPilot(file).city_name # "unknown"

Passed(result) == result.passed

\* geojson_validator.py:28-40
FileValidationReport(filename, city_name, pilot_number, total, passed, failed, results) ==
    [filename |-> filename, city_name |-> city_name, pilot_number |-> pilot_number,
     total_tests |-> total, passed_tests |-> passed,
     failed_tests |-> failed, validation_results |-> results]

\* geojson_validator.py:42-44, the quotient as the pair numerator, denominator
SuccessRate(r) ==
    IF r.total_tests > 0 THEN <<r.passed_tests, r.total_tests>> ELSE <<0, 1>>

\* a variant that passes a report as soon as one test passed
OverallStatusAnyPassed(r) == IF r.passed_tests > 0 THEN "PASS" ELSE "FAIL"

\* geojson_validator.py:46-48
OverallStatus(r) == IF r.failed_tests = 0 THEN "PASS" ELSE "FAIL"

\* a variant that counts every result as a failure
ValidateFileReportMiscounted(file, content, boundary_data) ==
    LET all_results == AllResults(file, content, boundary_data)
        passed_tests == Count([i \in DOMAIN all_results |-> Passed(all_results[i])])
        id == ExtractCityAndPilot(file)
    IN  FileValidationReport(file.name, id.city_name, id.pilot_number,
                             Len(all_results), passed_tests,
                             Len(all_results), all_results)

\* geojson_validator.py:451-519
ValidateFileReport(file, content, boundary_data) ==
    LET all_results == AllResults(file, content, boundary_data)
        passed_tests == Count([i \in DOMAIN all_results |-> Passed(all_results[i])])
        id == ExtractCityAndPilot(file)
    IN  FileValidationReport(file.name, id.city_name, id.pilot_number,
                             Len(all_results), passed_tests,
                             Len(all_results) - passed_tests, all_results)

\* geojson_validator.py:536-553, the report validate_all_files writes for a
\* file whose validate_file raised
ErrorReport(file) ==
    FileValidationReport(file.name, "unknown", "unknown", 1, 0, 1,
        << ValidationResult("critical_error", FALSE, "error", 0) >>)

(***************************************************************************)
(* GeoJSONValidator: validating one file, and a directory                  *)
(***************************************************************************)
MaxFeatures == 2
MaxFiles == 3

RowPool == <<RowWithin, RowTouching, RowOutside, RowOverseas, RowInvalid,
             RowNull, RowEmpty>>

\* the frames of at most MaxFeatures rows, the rows in the order of RowPool
\* (no check depends on the order of the rows)
RowSeqs ==
    LET picks == UNION {[1..n -> 1..Len(RowPool)] : n \in 0..MaxFeatures}
        ordered == {p \in picks : \A i \in 1..(Len(p) - 1) : p[i] <= p[i + 1]}
    IN  {[i \in DOMAIN p |-> RowPool[p[i]]] : p \in ordered}

CrsValues == {"EPSG:4326", "EPSG:3857", "none"}
Gdf(rows, crs) == [rows |-> rows, crs |-> crs]
Gdfs == {Gdf(rows, crs) : rows \in RowSeqs, crs \in CrsValues}
NoGdf == Gdf(<<>>, "none")

Faults == {"none", "geometry_validity", "european_bounds",
           "geographic_boundary_check"} \cup Unguarded

Files == {FileParis, FileUnknown, FileLab, FileNotes}

Contents ==
    \* stat() raises
    {Content(FALSE, "ok", "invalid", FALSE, NoGdf, "none")}
    \* open() raises
    \cup {Content(TRUE, "ok", "unreadable", FALSE, NoGdf, "none")}
    \* not JSON, or an empty file, and nothing the reader can load
    \cup {Content(TRUE, size, "invalid", FALSE, NoGdf, "none") : size \in {"ok", "empty"}}
    \* rejected by json.load, read by the reader (a byte order mark)
    \cup {Content(TRUE, "ok", "invalid", TRUE, Gdf(<<RowWithin>>, "EPSG:4326"), "none")}
    \* JSON that the reader cannot load
    \cup {Content(TRUE, "ok", "valid", FALSE, NoGdf, "none")}
    \* a single Feature object
    \cup {Content(TRUE, "ok", "feature", TRUE, Gdf(<<row>>, "EPSG:4326"), "none") :
             row \in {RowWithin, RowOutside}}
    \* a feature collection
    \cup {Content(TRUE, size, "valid", TRUE, gdf, fault) :
             size \in {"ok", "large"}, gdf \in Gdfs, fault \in Faults}

\* what the search of the validator answers
BoundaryAnswers == {Fail, Found(<<K1>>)}

\* geojson_validator.py:62-97, the value get_city_boundary returns
GetCityBoundaryReturn(city_name, resp) ==
    IF CacheHit(Lower(city_name), now)
    THEN cache[Lower(city_name)].data
    ELSE SearchOutcome(resp)

Input(file, content, boundary_data, called, raised) ==
    [file |-> file, content |-> content, boundary_data |-> boundary_data,
     called |-> called, raised |-> raised]

\* geojson_validator.py:480 and 101, what validate_coordinates_in_city gets
\* from get_city_boundary when validate_file reaches it
BoundaryDataFor(file, content, resp) ==
    IF CallsBoundaryValidator(file, content)
    THEN GetCityBoundaryReturn(ExtractCityAndPilot(file).city_name, resp)
    ELSE None

\* geojson_validator.py:451-519, validate_file with the call of
\* get_city_boundary it makes: the effect on the cache, and the report
ValidateFileCall(file, content, resp) ==
    IF CallsBoundaryValidator(file, content)
    THEN GetCityBoundaryCall(ExtractCityAndPilot(file).city_name, resp)
    ELSE UNCHANGED <<cache, lastCall>>

ValidateFileReturn(file, content, resp) ==
    ValidateFileReport(file, content, BoundaryDataFor(file, content, resp))

InputOf(file, content, resp) ==
    Input(file, content, BoundaryDataFor(file, content, resp),
          CallsBoundaryValidator(file, content), FALSE)

\* geojson_validator.py:533-535, one file, validate_file returns
ValidateFile ==
    /\ report = None
    /\ bpc = "idle"
    /\ \E file \in Files, content \in Contents, resp \in BoundaryAnswers :
          /\ ValidateFileCall(file, content, resp)
          /\ report' = ValidateFileReturn(file, content, resp)
          /\ validated' = InputOf(file, content, resp)
    /\ UNCHANGED <<now, resVars, bpc, geojson_files, todo, validation_reports,
                   batch_inputs, returned, upVars, wfVars>>

\* geojson_validator.py:536-553, one file, validate_file raises
ValidateFileRaises ==
    /\ report = None
    /\ bpc = "idle"
    /\ \E file \in Files, content \in Contents :
          /\ report' = ErrorReport(file)
          /\ validated' = Input(file, content, None, FALSE, TRUE)
    /\ UNCHANGED <<cacheVars, resVars, bpc, geojson_files, todo,
                   validation_reports, batch_inputs, returned, upVars, wfVars>>

NextValidate == ValidateFile \/ ValidateFileRaises

SpecValidate == Init /\ [][NextValidate]_vars

\* a variant that visits the files in the order glob gave them
Unsorted(fs) == fs

\* sorted() of the paths of the directory
SortedFiles == <<FileLab, FileNotes, FileParis, FileUnknown>>
InSeqFiles(fs, f) == \E i \in DOMAIN fs : fs[i] = f
Sorted(fs) == SelectSeq(SortedFiles, LAMBDA f : InSeqFiles(fs, f))

\* what glob may return: at most MaxFiles files of the directory, in any order
Listings ==
    {fs \in UNION {[1..n -> Files] : n \in 0..MaxFiles} :
        \A i, j \in DOMAIN fs : i # j => fs[i] # fs[j]}

\* the contents the files of a directory are drawn from
BatchContents ==
    { Content(TRUE, "ok", "valid", TRUE, Gdf(<<RowWithin>>, "EPSG:4326"), "none"),
      Content(TRUE, "ok", "valid", TRUE, Gdf(<<RowOutside>>, "EPSG:4326"), "null_geometries"),
      Content(TRUE, "ok", "invalid", FALSE, NoGdf, "none") }

\* geojson_validator.py:523-531
ListFiles ==
    /\ bpc = "idle"
    /\ report = None
    /\ \E listing \in Listings :
          /\ geojson_files' = listing
          /\ todo' = Sorted(listing)
          /\ bpc' = IF listing = <<>> THEN "done" ELSE "loop"
          /\ returned' = IF listing = <<>> THEN <<>> ELSE returned
    /\ UNCHANGED <<cacheVars, resVars, report, validated, validation_reports,
                   batch_inputs, upVars, wfVars>>

\* geojson_validator.py:532-535, one pass of the loop, validate_file returns
LoopValidates ==
    /\ bpc = "loop"
    /\ todo # <<>>
    /\ \E content \in BatchContents, resp \in BoundaryAnswers :
          /\ ValidateFileCall(Head(todo), content, resp)
          /\ validation_reports' =
                Append(validation_reports, ValidateFileReturn(Head(todo), content, resp))
          /\ batch_inputs' = Append(batch_inputs, InputOf(Head(todo), content, resp))
    /\ todo' = Tail(todo)
    /\ UNCHANGED <<now, resVars, report, validated, bpc, geojson_files, returned,
                   upVars, wfVars>>

\* geojson_validator.py:536-553, one pass of the loop, validate_file raises
LoopRaises ==
    /\ bpc = "loop"
    /\ todo # <<>>
    /\ \E content \in BatchContents :
          /\ validation_reports' = Append(validation_reports, ErrorReport(Head(todo)))
          /\ batch_inputs' =
                Append(batch_inputs, Input(Head(todo), content, None, FALSE, TRUE))
    /\ todo' = Tail(todo)
    /\ UNCHANGED <<cacheVars, resVars, report, validated, bpc, geojson_files,
                   returned, upVars, wfVars>>

\* geojson_validator.py:555
ReturnReports ==
    /\ bpc = "loop"
    /\ todo = <<>>
    /\ bpc' = "done"
    /\ returned' = validation_reports
    /\ UNCHANGED <<cacheVars, resVars, report, validated, geojson_files, todo,
                   validation_reports, batch_inputs, upVars, wfVars>>

NextBatch == ListFiles \/ LoopValidates \/ LoopRaises \/ ReturnReports

\* the loop runs to its end: each pass is taken once it can be
SpecBatch == Init /\ [][NextBatch]_vars /\ WF_vars(NextBatch)

\* The caller cancels the run: the only signal validate_all_files can receive
\* is a KeyboardInterrupt, raised in whatever statement the loop is at. It is
\* no Exception, so the handler at geojson_validator.py:536 does not catch it;
\* it leaves validate_all_files, run_validation and run_complete_workflow and
\* ends in main (main_workflow.py:457-459). Nothing is returned.
Interrupt ==
    /\ bpc = "loop"
    /\ bpc' = "interrupted"
    /\ UNCHANGED <<cacheVars, resVars, report, validated, geojson_files, todo,
                   validation_reports, batch_inputs, returned, upVars, wfVars>>

NextCancel == NextBatch \/ Interrupt

SpecCancel == Init /\ [][NextCancel]_vars

(***************************************************************************)
(* CKANUploader: uploading the validated files                             *)
(***************************************************************************)
MaxUploadFiles == 2

\* ckan_uploader.py:265, filename.replace('.geojson', '')
Stem(filename) ==
    CASE filename = "pilot1_paris.geojson" -> "pilot1_paris"
      [] filename = "pilot3_unknown.geojson" -> "pilot3_unknown"
      [] filename = "lab_heidelberg.geojson" -> "lab_heidelberg"
      [] filename = "notes.geojson" -> "notes"
      [] OTHER -> filename

\* ckan_uploader.py:265
ResourceName(filename, resource_format) ==
    Stem(filename) \o " (" \o resource_format \o ")"

\* ckan_uploader.py:125, the name of the dataset of a report
DatasetName(r) ==
    "reallocate-pilot" \o "-" \o r.pilot_number \o "-" \o Lower(r.city_name)

\* ckan_uploader.py:79, config['resource_formats']
ResourceFormats == <<"GeoJSON", "CSV">>

\* The reports handed to the uploader: the report of validate_file for a file
\* that passes, for the same file when it fails, and the error report of
\* validate_all_files for another file.
GoodContent == Content(TRUE, "ok", "valid", TRUE, Gdf(<<RowWithin>>, "EPSG:4326"), "none")
BadContent == Content(TRUE, "ok", "valid", TRUE, Gdf(<<RowOutside>>, "EPSG:4326"), "none")

UploadReports ==
    { ValidateFileReport(FileParis, GoodContent, K1),
      ValidateFileReport(FileParis, BadContent, K1),
      ErrorReport(FileUnknown) }

ReportLists == UNION {[1..n -> UploadReports] : n \in 0..MaxUploadFiles}

\* What one call of the CKAN API does: it succeeds, it raises before the
\* server acted, or the server acted and the reply was lost (the call raises).
ApiOutcomes == {"ok", "error", "lost"}

Call(op, dataset, resource) == [op |-> op, dataset |-> dataset, resource |-> resource]

\* the server holds a dataset of that name (package_show does not raise NotFound)
DatasetExists(server, name) == name \in DOMAIN server

\* the server after package_create(name = ...)
PackageCreated(server, name) ==
    [n \in DOMAIN server \cup {name} |-> IF n = name THEN <<>> ELSE server[n]]

\* the server after resource_create(package_id = ..., name = ...)
ResourceCreated(server, name, resource_name) ==
    [server EXCEPT ![name] = Append(@, resource_name)]

\* ckan_uploader.py:193-221, get_or_create_dataset.  outcome is the outcome of
\* the calls it makes; the preserved resources go back with package_update.
GetOrCreateDataset(server, name, outcome) ==
    IF outcome = "error"
    THEN [server |-> server, calls |-> <<>>, raised |-> TRUE]
    ELSE IF DatasetExists(server, name)
    THEN [server |-> server,
          calls |-> << Call("package_update", name, "") >>,
          raised |-> outcome = "lost"]
    ELSE [server |-> PackageCreated(server, name),
          calls |-> << Call("package_create", name, "") >>,
          raised |-> outcome = "lost"]

\* ckan_uploader.py:267-270, the first resource of the dataset with the name
ExistingResource(server, name, resource_name) ==
    \E i \in DOMAIN server[name] : server[name][i] = resource_name

\* a variant that never looks for the resource and always creates one
UploadResourceAlwaysCreates(server, name, filename, fmt, csv_ok, outcome) ==
    LET resource_name == ResourceName(filename, fmt)
    IN  IF outcome = "error" \/ (fmt = "CSV" /\ ~csv_ok)
        THEN [server |-> server, calls |-> <<>>, uploaded |-> FALSE]
        ELSE [server |-> ResourceCreated(server, name, resource_name),
              calls |-> << Call("resource_create", name, resource_name) >>,
              uploaded |-> outcome = "ok"]

\* ckan_uploader.py:257-323, upload_resource.  csv_ok: convert_geojson_to_csv
\* returned a buffer; outcome: the outcome of the calls it makes.
UploadResource(server, name, filename, fmt, csv_ok, outcome) ==
    LET resource_name == ResourceName(filename, fmt)
    IN  IF outcome = "error" \/ (fmt = "CSV" /\ ~csv_ok)
        THEN [server |-> server, calls |-> <<>>, uploaded |-> FALSE]
        ELSE IF ExistingResource(server, name, resource_name)
        THEN [server |-> server,
              calls |-> << Call("resource_update", name, resource_name) >>,
              uploaded |-> outcome = "ok"]
        ELSE [server |-> ResourceCreated(server, name, resource_name),
              calls |-> << Call("resource_create", name, resource_name) >>,
              uploaded |-> outcome = "ok"]

\* ckan_uploader.py:325-385, upload_validated_file: the dataset, then one
\* resource per format; success when some resource was uploaded
UploadValidatedFile(server, r, csv_ok, d, o) ==
    LET name == DatasetName(r)
        ds == GetOrCreateDataset(server, name, d)
        first == UploadResource(ds.server, name, r.filename, ResourceFormats[1], csv_ok, o[1])
        second == UploadResource(first.server, name, r.filename, ResourceFormats[2], csv_ok, o[2])
    IN  IF ds.raised
        THEN [server |-> ds.server, calls |-> ds.calls, success |-> FALSE]
        ELSE [server |-> second.server,
              calls |-> ds.calls \o first.calls \o second.calls,
              success |-> first.uploaded \/ second.uploaded]

\* a variant that uploads every report, whatever only_passed says
FilterReportsIgnoringStatus(reports, only) == reports

\* ckan_uploader.py:393-398
FilterReports(reports, only) ==
    IF only
    THEN SelectSeq(reports, LAMBDA r : OverallStatus(r) = "PASS")
    ELSE reports

\* ckan_uploader.py:387-400, upload_validated_files is called
StartUpload ==
    /\ upc \in {"idle", "done"}
    /\ \E reports \in ReportLists, only \in BOOLEAN :
          /\ only_passed' = only
          /\ valid_reports' = FilterReports(reports, only)
    /\ upc' = "loop"
    /\ upload_results' = <<>>
    /\ last_upload' = None
    /\ UNCHANGED <<ckan, cacheVars, resVars, valVars, wfVars>>

\* ckan_uploader.py:402-423, one turn of the loop: the file is gone
FileNotFound ==
    /\ upc = "loop"
    /\ valid_reports # <<>>
    /\ valid_reports' = Tail(valid_reports)
    /\ upload_results' = Append(upload_results, FALSE)
    /\ last_upload' = [report |-> Head(valid_reports), attempted |-> FALSE, calls |-> <<>>]
    /\ UNCHANGED <<ckan, upc, only_passed, cacheVars, resVars, valVars, wfVars>>

\* ckan_uploader.py:402-423, one turn of the loop: the file is uploaded
UploadNext ==
    /\ upc = "loop"
    /\ valid_reports # <<>>
    /\ \E csv_ok \in BOOLEAN, d \in ApiOutcomes, o \in [1..2 -> ApiOutcomes] :
          LET up == UploadValidatedFile(ckan, Head(valid_reports), csv_ok, d, o)
          IN  /\ ckan' = up.server
              /\ upload_results' = Append(upload_results, up.success)
              /\ last_upload' = [report |-> Head(valid_reports), attempted |-> TRUE,
                                 calls |-> up.calls]
    /\ valid_reports' = Tail(valid_reports)
    /\ UNCHANGED <<upc, only_passed, cacheVars, resVars, valVars, wfVars>>

\* ckan_uploader.py:425-441, the summary is returned
FinishUpload ==
    /\ upc = "loop"
    /\ valid_reports = <<>>
    /\ upc' = "done"
    /\ UNCHANGED <<ckan, only_passed, valid_reports, upload_results, last_upload,
                   cacheVars, resVars, valVars, wfVars>>

NextUpload == StartUpload \/ FileNotFound \/ UploadNext \/ FinishUpload

SpecUpload == Init /\ [][NextUpload]_vars

(***************************************************************************)
(* WorkflowOrchestrator.run_complete_workflow                              *)
(***************************************************************************)
\* main_workflow.py:323, the number of reports whose status is PASS
PassedValidation(reports) ==
    Cardinality({i \in DOMAIN reports : OverallStatus(reports[i]) = "PASS"})

\* main_workflow.py:324, the workflow stops after the validation phase
StopsAfterValidation(reports, continue_on_validation_failures) ==
    PassedValidation(reports) = 0 /\ ~continue_on_validation_failures

\* a variant of run_upload that raises again whatever the configuration says
ReraisesAlways(continue_on_upload_failures) == TRUE

\* main_workflow.py:213-217, the handler of run_upload raises again
Reraises(continue_on_upload_failures) == ~continue_on_upload_failures

\* the state of one run: the arguments and the configuration, the phases
\* entered so far, what the phases left, and the status returned
Run(skip_upload, cont_validation, cont_upload) ==
    [skip_upload |-> skip_upload,
     continue_on_validation_failures |-> cont_validation,
     continue_on_upload_failures |-> cont_upload,
     phases |-> <<>>,
     validation_reports |-> <<>>,
     upload_summary |-> "none",
     upload_raised |-> FALSE,
     reports_raised |-> FALSE,
     status |-> "none",
     message |-> ""]

\* main_workflow.py:312-314, 319-321, 325-327, 356-371: the dictionary returned
Returned(run, status, message) ==
    [run EXCEPT !.status = status, !.message = message]

Entered(run, phase) == [run EXCEPT !.phases = Append(@, phase)]

\* main_workflow.py:298-308, run_complete_workflow is called
StartWorkflow ==
    /\ wpc = "idle"
    /\ \E skip_upload \in BOOLEAN, cv \in BOOLEAN, cu \in BOOLEAN :
          wf' = Run(skip_upload, cv, cu)
    /\ wpc' = "discover"
    /\ UNCHANGED <<cacheVars, resVars, valVars, upVars>>

\* main_workflow.py:310-314, phase 1: the directory is missing (the call
\* raises), holds no file, or holds some
DiscoverFiles ==
    /\ wpc = "discover"
    /\ \E found \in {"raises", "empty", "files"} :
          LET run == Entered(wf, "discovery")
          IN  CASE found = "raises" ->
                     /\ wf' = Returned(run, "failed", "Workflow terminated due to unexpected error")
                     /\ wpc' = "returned"
                [] found = "empty" ->
                     /\ wf' = Returned(run, "completed", "No files found")
                     /\ wpc' = "returned"
                [] OTHER ->
                     /\ wf' = run
                     /\ wpc' = "validation"
    /\ UNCHANGED <<cacheVars, resVars, valVars, upVars>>

\* main_workflow.py:316-327, phase 2 and the test that follows it.
\* run_validation raises when validate_all_files raises, and at line 174 when
\* it returns no report.
RunValidation ==
    /\ wpc = "validation"
    /\ \E raises \in BOOLEAN, reports \in ReportLists :
          LET run == Entered(wf, "validation")
              done == [run EXCEPT !.validation_reports = reports]
          IN  IF raises \/ reports = <<>>
              THEN /\ wf' = Returned(run, "failed", "Workflow terminated due to unexpected error")
                   /\ wpc' = "returned"
              ELSE IF StopsAfterValidation(reports, wf.continue_on_validation_failures)
              THEN /\ wf' = Returned(done, "failed", "No files passed validation")
                   /\ wpc' = "returned"
              ELSE /\ wf' = done
                   /\ wpc' = "upload"
    /\ UNCHANGED <<cacheVars, resVars, valVars, upVars>>

\* main_workflow.py:329-334, the upload phase is skipped
SkipUpload ==
    /\ wpc = "upload"
    /\ wf.skip_upload
    /\ wpc' = "reports"
    /\ UNCHANGED <<wf, cacheVars, resVars, valVars, upVars>>

\* main_workflow.py:185-217 and 329-332, phase 3: run_upload returns the
\* summary, or the uploader raises (no API key, no connection)
RunUpload ==
    /\ wpc = "upload"
    /\ ~wf.skip_upload
    /\ \E raises \in BOOLEAN :
          LET run == Entered(wf, "upload")
          IN  IF ~raises
              THEN /\ wf' = [run EXCEPT !.upload_summary = "summary"]
                   /\ wpc' = "reports"
              ELSE IF Reraises(wf.continue_on_upload_failures)
              THEN /\ wf' = Returned([run EXCEPT !.upload_raised = TRUE], "failed",
                                     "Workflow terminated due to unexpected error")
                   /\ wpc' = "returned"
              ELSE /\ wf' = [run EXCEPT !.upload_raised = TRUE]
                   /\ wpc' = "reports"
    /\ UNCHANGED <<cacheVars, resVars, valVars, upVars>>

\* main_workflow.py:336-371, phase 4 and the return: the reports are written,
\* or writing one of them raises
GenerateReports ==
    /\ wpc = "reports"
    /\ \E raises \in BOOLEAN :
          LET run == Entered(wf, "reports")
          IN  IF raises
              THEN wf' = Returned([run EXCEPT !.reports_raised = TRUE], "failed",
                                  "Workflow terminated due to unexpected error")
              ELSE wf' = Returned(run, "completed", "")
    /\ wpc' = "returned"
    /\ UNCHANGED <<cacheVars, resVars, valVars, upVars>>

NextWorkflow ==
    \/ StartWorkflow
    \/ DiscoverFiles
    \/ RunValidation
    \/ SkipUpload
    \/ RunUpload
    \/ GenerateReports

SpecWorkflow == Init /\ [][NextWorkflow]_vars

(***************************************************************************)
(* Properties of the boundary cache (SpecCache)                            *)
(***************************************************************************)
\* the last call and the call before it were for the same name, less than
\* cache_timeout apart
TwoCallsWithinTimeout ==
    /\ lastCall # NoCall
    /\ lastCall.prev # NoCall
    /\ lastCall.prev.name = lastCall.name
    /\ lastCall.t - lastCall.prev.t < CacheTimeout

\* C1: two calls of get_city_boundary for the same name made within
\* cache_timeout of each other issue at most one external search in total,
\* whatever the outcome of the first call.
C1_AtMostOneSearch ==
    TwoCallsWithinTimeout => lastCall.prev.searches + lastCall.searches <= 1

\* C2: a resolution that ends in failure stores the failure in the cache with
\* a fresh timestamp (so that the next call within the TTL is served NotFound
\* from the cache).
C2_FailureIsCached ==
    (lastCall # NoCall /\ lastCall.searches = 1 /\ lastCall.ret = None)
        => /\ cache[lastCall.key] # NoEntry
           /\ cache[lastCall.key].data = None
           /\ cache[lastCall.key].ts = lastCall.t

\* the last call found an entry for its key that was at least cache_timeout old
CalledOnExpiredEntry ==
    /\ lastCall # NoCall
    /\ lastCall.entry # NoEntry
    /\ lastCall.t - lastCall.entry.ts >= CacheTimeout

\* C3: a cache entry whose age is at least cache_timeout is treated as absent:
\* the call issues the external search again and returns what that search
\* yields (None when it fails), never the expired cached value.
C3_ExpiredEntryIsReResolved ==
    CalledOnExpiredEntry
        => /\ lastCall.searches = 1
           /\ lastCall.ret = SearchOutcome(lastCall.resp)

\* an expired entry held a boundary, the search issued again failed, and the
\* call returned None
C3_Witness ==
    /\ CalledOnExpiredEntry
    /\ lastCall.entry.data # None
    /\ lastCall.searches = 1
    /\ ~lastCall.resp.ok
    /\ lastCall.ret = None

\* C4: every boundary get_city_boundary of the validator returns (the one the
\* containment check tests features against) has geometry type Polygon or
\* MultiPolygon.
C4_ValidatorBoundaryIsPolygon ==
    (lastCall # NoCall /\ lastCall.ret # None)
        => lastCall.ret.geom \in {"Polygon", "MultiPolygon"}

(***************************************************************************)
(* Properties of the resolver (SpecResolve)                                *)
(***************************************************************************)
\* the eligibility filter as the specification states it
Eligible(f) ==
    /\ ~f.bad
    /\ f.geom \in {"Polygon", "MultiPolygon"}
    /\ 10 < f.area
    /\ f.area < (IF IsLargeMunicipality(f) THEN 4000 ELSE 2000)

EligibleSeen == {i \in 1..Len(seen) : Eligible(seen[i].f)}

MaxEligibleScore ==
    CHOOSE m \in {seen[i].score : i \in EligibleSeen} :
        \A i \in EligibleSeen : seen[i].score <= m

FirstMaxIndex ==
    CHOOSE i \in EligibleSeen :
        /\ seen[i].score = MaxEligibleScore
        /\ \A j \in EligibleSeen : seen[j].score = MaxEligibleScore => i <= j

\* the ResolvedBoundary of the resolver algorithm over the results seen
ResolvedBoundary ==
    IF EligibleSeen = {} THEN None ELSE seen[FirstMaxIndex].f

\* C5: for the same name and the same search responses, the boundary the
\* validator's containment check uses is the ResolvedBoundary of the resolver
\* (BoundaryPlotter.get_city_boundary).
C5_ValidatorUsesResolvedBoundary ==
    (pc = "done" /\ lastCall # NoCall) => lastCall.ret = ret

\* C6: the resolver returns the first candidate, in iteration order, whose
\* combined score is the maximum among the eligible candidates, and None when
\* no candidate is eligible.
C6_FirstMaximumWins ==
    pc = "done" => ret = ResolvedBoundary

\* two different eligible candidates tie at the maximum and the earlier one
\* is returned
C6_Witness ==
    /\ pc = "done"
    /\ \E i, j \in EligibleSeen :
        /\ i < j
        /\ seen[i].f # seen[j].f
        /\ seen[i].score = MaxEligibleScore
        /\ seen[j].score = MaxEligibleScore
        /\ ret = seen[i].f
        /\ \A k \in EligibleSeen : seen[k].score = MaxEligibleScore => i <= k

\* C7: a candidate becomes the best boundary only if its geometry type is
\* Polygon or MultiPolygon and its area lies in the size window (above 10 and
\* below 2000 km2, below 4000 km2 for a large-municipality match).
C7_BestIsEligible ==
    best_boundary # None => Eligible(best_boundary)

\* a result of unsuitable geometry, with an area inside the window, scored
\* higher than the best boundary and was not taken
C7_Witness ==
    /\ best_boundary # None
    /\ \E i \in 1..Len(seen) :
        /\ ~seen[i].f.bad
        /\ seen[i].f.geom \notin {"Polygon", "MultiPolygon"}
        /\ seen[i].f.area > 10
        /\ seen[i].score > best_area

\* C8: a failed search of one variant, or a fault while one result is
\* processed, does not abort resolution: every variant is searched, an
\* eligible candidate found before the failure is kept, and the validator's
\* failed search ends in None.
C8_FailureDoesNotAbort ==
    /\ pc = "done" =>
        /\ Len(outcomes) = Len(city_variations)
        /\ EligibleSeen # {} => ret # None
    /\ (lastCall # NoCall /\ lastCall.searches = 1 /\ ~lastCall.resp.ok)
            => lastCall.ret = None

\* an eligible candidate was found, then a result raised, then a search
\* failed, then a later variant was searched, and a boundary is returned
C8_Witness ==
    /\ pc = "done"
    /\ ret # None
    /\ \E j \in 2..(Len(outcomes) - 1) :
        /\ outcomes[j] = "fail"
        /\ outcomes[j + 1] = "ok"
        /\ \E i \in EligibleSeen : seen[i].v < j
        /\ \E k \in 1..Len(seen) : seen[k].f.bad /\ seen[k].v < j

\* the fields the claim names, as the code reads them
FourFields(f) ==
    <<Prop(f, "type"), Prop(f, "class"), Prop(f, "display_name"), f.area>>

FiveFields(f) ==
    <<Prop(f, "type"), Prop(f, "class"), Prop(f, "display_name"),
      Prop(f, "name"), f.area>>

Scored == {i \in 1..Len(seen) : ~seen[i].f.bad}

\* C10 as stated: two candidates that agree on (type, class, display name,
\* area) get the same combined score.
C10_ScoreOfFourFields ==
    \A i, j \in Scored :
        FourFields(seen[i].f) = FourFields(seen[j].f) => seen[i].score = seen[j].score

\* C10 amended: two candidates that agree on (type, class, display name, name,
\* area) get the same combined score, whatever their other fields and
\* whatever was processed before them.
C10_ScoreOfFiveFields ==
    \A i, j \in Scored :
        FiveFields(seen[i].f) = FiveFields(seen[j].f) => seen[i].score = seen[j].score

\* two different results that agree on the five fields were scored, one
\* after the other
C10_Witness ==
    \E i, j \in Scored :
        /\ i < j
        /\ seen[i].f # seen[j].f
        /\ FiveFields(seen[i].f) = FiveFields(seen[j].f)
        /\ seen[i].score = seen[j].score

(***************************************************************************)
(* Properties of the name variants (SpecVariants)                          *)
(***************************************************************************)
NoDuplicates(q) == \A i, j \in 1..Len(q) : q[i] = q[j] => i = j

\* C9 as stated: the list of variants is non-empty, starts with the bare
\* name, has at most 10 entries and no duplicates.
C9_VariantsAsStated ==
    pc = "generated" =>
        /\ Len(city_variations) >= 1
        /\ city_variations[1] = city
        /\ Len(city_variations) <= 10
        /\ NoDuplicates(city_variations)

\* C9 amended: the list of variants is non-empty, contains the bare name and
\* has no duplicates; the bare name is first unless the name is gothenburg or
\* göteborg, for which "Göteborg" is first; the cap of 10 is on the discovered
\* names, and the list has at most 10 entries per discovered name plus the 3
\* priority names.
C9_Variants ==
    pc = "generated" =>
        /\ Len(city_variations) >= 1
        /\ InSeq(city, city_variations)
        /\ city_variations[1] =
              (IF Lower(city) \in {"gothenburg", "göteborg"} THEN "Göteborg" ELSE city)
        /\ NoDuplicates(city_variations)
        /\ Len(discovered_names) <= 10
        /\ discovered_names[1] = city
        /\ Len(city_variations) <= 10 * Len(discovered_names) + 3

\* more names were discovered than the cap keeps, for a name with priority
\* names, and the list is longer than 10
C9_Witness ==
    /\ pc = "generated"
    /\ Lower(city) \in {"gothenburg", "göteborg"}
    /\ Len(discovered_names) = 10
    /\ Len(city_variations) > 10

(***************************************************************************)
(* Properties of the validation of one file (SpecValidate)                 *)
(***************************************************************************)
\* validate_file returned a report
Reported == report # None /\ ~validated.raised

Results == report.validation_results

\* the number of results of the report that carry the name
Named(name) == Count([i \in DOMAIN Results |-> Results[i].test_name = name])

Failing(i, name) == Results[i].test_name = name /\ ~Results[i].passed

\* the file was found and the reader loaded it to a frame
Loaded == Reported /\ validated.content.stat /\ validated.content.loads

CheckCategories ==
    {"feature_count", "coordinate_system", "null_geometries", "empty_geometries",
     "geometry_validity", "european_bounds", "geographic_boundary_check"}

\* C11: for every feature collection that loads, the report of validate_file
\* holds exactly one result for each check category (feature count, CRS,
\* null geometry, empty geometry, validity, coordinate range, boundary).
C11_OneResultPerCategory ==
    Loaded => \A c \in CheckCategories : Named(c) = 1

\* the file is there and neither json.load nor the reader can parse it
FailsToParse ==
    /\ Reported
    /\ validated.content.stat
    /\ validated.content.json = "invalid"
    /\ ~validated.content.loads

CannotBeOpened ==
    /\ Reported
    /\ (~validated.content.stat \/ validated.content.json = "unreadable")

\* C13 as stated: every report has total_tests >= 1, and a file that cannot
\* be opened yields exactly one failing result.
C13_SingleResultWhenUnopenable ==
    report # None =>
        /\ report.total_tests >= 1
        /\ (CannotBeOpened => Len(Results) = 1 /\ ~Results[1].passed)

\* C13: every report of validate_file and of validate_all_files has
\* total_tests >= 1, the length of its result list. A file whose stat() fails
\* yields exactly one result, a failing file_access. A file that is found
\* and cannot be opened for reading yields five results: the three
\* file-system results, a failing json_structure and a failing
\* geopandas_loading.
C13_AtLeastOneResult ==
    report # None =>
        /\ report.total_tests >= 1
        /\ report.total_tests = Len(Results)
        /\ (Reported /\ ~validated.content.stat =>
               Len(Results) = 1 /\ Failing(1, "file_access"))
        /\ (Reported /\ validated.content.stat /\ validated.content.json = "unreadable" =>
               /\ Len(Results) = 5
               /\ Failing(4, "json_structure")
               /\ Failing(5, "geopandas_loading"))

\* a file that is found and cannot be opened for reading
C13_Witness ==
    /\ Reported
    /\ validated.content.stat
    /\ validated.content.json = "unreadable"
    /\ report.total_tests = 5

\* C14: for every report, overall_status is PASS exactly when every result of
\* the list passed, and success_rate is passed_tests / total_tests when
\* total_tests > 0 and 0 otherwise, the two counts being those of the list.
C14_StatusAndRate ==
    report # None =>
        /\ (OverallStatus(report) = "PASS" <=> \A i \in DOMAIN Results : Results[i].passed)
        /\ report.passed_tests = Count([i \in DOMAIN Results |-> Passed(Results[i])])
        /\ report.total_tests = Len(Results)
        /\ SuccessRate(report) =
              IF report.total_tests > 0
              THEN <<report.passed_tests, report.total_tests>>
              ELSE <<0, 1>>

\* a report of status FAIL in which some test passed
C14_Witness ==
    /\ report # None
    /\ report.passed_tests > 0
    /\ report.failed_tests > 0
    /\ OverallStatus(report) = "FAIL"

\* validate_file reached the containment check and the boundary was resolved
BoundaryChecked ==
    /\ Reported
    /\ validated.called
    /\ validated.boundary_data # None

BoundaryResult == Results[Len(Results)]

NonIntersecting ==
    Count([i \in DOMAIN validated.content.gdf.rows |->
              ~Intersects(validated.content.gdf.rows[i])])

C16_UnknownCityOneBoundaryResult ==
    (Loaded /\ report.city_name = "unknown") =>
        /\ Named("geographic_boundary_check") = 1
        /\ ~BoundaryResult.passed
        /\ lastCall = NoCall
        /\ cache = [k \in CacheKeys |-> NoEntry]

\* the report validate_file makes of the file when the boundary resolves
ReportWhenResolved == ValidateFileReport(validated.file, validated.content, K1)

\* C17: for a file that passes every check when its boundary resolves, a
\* NotFound resolution makes exactly one result fail, the boundary check
\* with the reason that the boundary is unavailable; every other result
\* passes as before, the overall status is FAIL, and validate_file returns.
C17_NotFoundFailsOnlyBoundaryCheck ==
    (/\ Reported
     /\ OverallStatus(ReportWhenResolved) = "PASS"
     /\ validated.boundary_data = None) =>
        /\ Len(Results) = Len(ReportWhenResolved.validation_results)
        /\ report.failed_tests = 1
        /\ \A i \in 1..(Len(Results) - 1) :
              Results[i] = ReportWhenResolved.validation_results[i] /\ Results[i].passed
        /\ BoundaryResult =
              ValidationResult("geographic_boundary_check", FALSE, "api_unavailable", 0)
        /\ OverallStatus(report) = "FAIL"

\* such a file, its boundary not found
C17_Witness ==
    /\ Reported
    /\ OverallStatus(ReportWhenResolved) = "PASS"
    /\ validated.called
    /\ validated.boundary_data = None
    /\ report.failed_tests = 1

\* C18: an exception raised while one check runs becomes one failing result
\* for that check, and the results of the other checks are all there.
C18_ExceptionIsOneFailingResult ==
    (Loaded /\ validated.content.fault # "none") =>
        /\ \A c \in CheckCategories : Named(c) = 1
        /\ \A i \in DOMAIN Results :
              Results[i].test_name = validated.content.fault => ~Results[i].passed

\* the number of rows of null geometry of the validated frame
NullRows ==
    Count([k \in DOMAIN validated.content.gdf.rows |->
              IsNull(validated.content.gdf.rows[k])])

\* the frame without its rows of null geometry
WithoutNull(gdf) == Gdf(SelectSeq(gdf.rows, LAMBDA row : ~IsNull(row)), gdf.crs)

\* C19: a collection with features of null geometry makes the null-geometry
\* check fail, reporting their number, and the coordinate-system and
\* coordinate-range checks still emit one result each, with the value they
\* have for the collection without those features.
C19_NullGeometryIsLocal ==
    (Loaded /\ NullRows > 0) =>
        /\ Named("null_geometries") = 1
        /\ Named("coordinate_system") = 1
        /\ Named("european_bounds") = 1
        /\ \A i \in DOMAIN Results :
              /\ Results[i].test_name = "null_geometries" =>
                    /\ ~Results[i].passed
                    /\ Results[i].count = NullRows
              /\ Results[i].test_name = "coordinate_system" =>
                    Results[i] = CoordinateSystemResult(WithoutNull(validated.content.gdf))
              /\ Results[i].test_name = "european_bounds" =>
                    Results[i] = EuropeanBoundsResult(WithoutNull(validated.content.gdf),
                                                      validated.content.fault)

(***************************************************************************)
(* Properties of the validation of a directory (SpecBatch)                 *)
(***************************************************************************)
\* the place of a file name in the sorted order of the names
Rank(name) == CHOOSE i \in DOMAIN SortedFiles : SortedFiles[i].name = name

\* the check that raised, or the parse that failed, leaves a failing report
Faulty(inp) ==
    \/ inp.raised
    \/ ~inp.content.stat
    \/ ~inp.content.loads
    \/ inp.content.fault # "none"

BatchDone ==
    /\ Len(validation_reports) = Len(geojson_files)
    /\ {validation_reports[i].filename : i \in DOMAIN validation_reports}
          = {geojson_files[i].name : i \in DOMAIN geojson_files}
    /\ \A i, j \in DOMAIN validation_reports :
          i < j => Rank(validation_reports[i].filename) < Rank(validation_reports[j].filename)
    /\ \A i \in DOMAIN validation_reports :
          /\ Faulty(batch_inputs[i]) => OverallStatus(validation_reports[i]) = "FAIL"
          /\ batch_inputs[i].raised =>
                validation_reports[i].validation_results =
                    << ValidationResult("critical_error", FALSE, "error", 0) >>

C21_CancelledRunReturnsReports ==
    bpc = "interrupted" => returned = validation_reports

\* the seven check categories in the order of the specification
SpecifiedOrder ==
    <<"feature_count", "null_geometries", "empty_geometries", "geometry_validity",
      "coordinate_system", "european_bounds", "geographic_boundary_check">>

\* the names of the results of the report that belong to the check categories
CategoryNames ==
    LET names == [i \in DOMAIN Results |-> Results[i].test_name]
    IN  SelectSeq(names, LAMBDA n : n \in CheckCategories)

\* C22: the results of the checks appear in the fixed order feature count,
\* null geometries, empty geometries, geometry validity, coordinate system,
\* coordinate range, boundary containment, whichever checks pass.
C22_ResultsInSpecifiedOrder ==
    (Loaded /\ validated.content.fault \notin Unguarded) =>
        CategoryNames = SpecifiedOrder

(***************************************************************************)
(* Properties of the score (SpecScore)                                     *)
(***************************************************************************)
\* a field of the candidate, the empty string when it is missing
FieldOrEmpty(f, field) == IF f[field] = Missing THEN "" ELSE Lower(f[field])

\* the type score as the claim states it, times ten
StatedTypeScore(f) ==
    CASE FieldOrEmpty(f, "type") = "city" -> 1000
      [] FieldOrEmpty(f, "type") # "city"
         /\ FieldOrEmpty(f, "class") = "place"
         /\ Contains(FieldOrEmpty(f, "display_name"), "city") -> 900
      [] OTHER ->
            IF FieldOrEmpty(f, "type") \in {"town", "village"} THEN 800
            ELSE IF FieldOrEmpty(f, "type") = "administrative"
            THEN (IF IsLargeMunicipality(f) THEN 950
                  ELSE IF f.area < 500 THEN 700 ELSE 300)
            ELSE 500

\* the size score as the claim states it, times ten
StatedSizeScore(f) ==
    IF IsLargeMunicipality(f) THEN 500
    ELSE IF Abs(f.area - 200) >= 1000 THEN 0
    ELSE 1000 - Abs(f.area - 200)

\* C23: the combined score is typeScore + sizeScore, with typeScore 100 for
\* type city, else 90 for class place with a display name containing city,
\* else 80 for town or village, else for administrative the override score
\* (95) on a large-municipality match, 70 below 500 km2 and 30 otherwise,
\* else 50; sizeScore 50 on a large-municipality match, otherwise
\* max(0, 100 - |area_km2 - 200| / 10). It is never negative, and missing
\* type, class or name fields count as empty strings.
C23_ScoreAsStated ==
    \A i \in Scored :
        /\ seen[i].score = StatedTypeScore(seen[i].f) + StatedSizeScore(seen[i].f)
        /\ seen[i].score >= 0

\* a candidate without type, class and name, far from the preferred size,
\* gets the default type score and the size score zero
C23_Witness ==
    /\ pc = "scored"
    /\ \E i \in Scored :
          /\ seen[i].f.type = Missing
          /\ seen[i].f.class = Missing
          /\ seen[i].f.name = Missing
          /\ seen[i].f.area = 3000
          /\ seen[i].score = 500

(***************************************************************************)
(* Properties of the sequence of searches (SpecResolve)                    *)
(***************************************************************************)
\* C24: within one resolution each variant is searched exactly once, one
\* search at a time in the order of the list, and a failed search is never
\* retried: the searches issued so far are those of the variants before the
\* current one, and at the end their number is the number of variants.
C24_EachVariantSearchedOnce ==
    pc \in {"search", "done"} =>
        /\ idx <= Len(city_variations) + 1
        /\ Len(outcomes) = idx - 1
        /\ (pc = "done" => Len(outcomes) = Len(city_variations))
        /\ \A i, j \in DOMAIN seen : i < j => seen[i].v <= seen[j].v
        /\ \A i \in DOMAIN seen : seen[i].v <= Len(outcomes) /\ outcomes[seen[i].v] = "ok"

\* a resolution of three variants whose first two searches failed and whose
\* third answered with a result
C24_Witness ==
    /\ pc = "done"
    /\ Len(city_variations) = 3
    /\ outcomes = <<"fail", "fail", "ok">>
    /\ Len(seen) >= 1
    /\ seen[1].v = 3

\* C25: every report whose overall status is PASS holds a passing
\* geographic_boundary_check result: the file's locality is known, the file
\* loaded, validate_coordinates_in_city was called with a resolved boundary,
\* and every feature intersects it.
C25_PassMeansBoundaryChecked ==
    (report # None /\ OverallStatus(report) = "PASS") =>
        /\ Named("geographic_boundary_check") = 1
        /\ \A i \in DOMAIN Results :
              Results[i].test_name = "geographic_boundary_check" => Results[i].passed
        /\ ~validated.raised
        /\ validated.content.stat
        /\ validated.content.loads
        /\ ExtractCityAndPilot(validated.file).city_name # "unknown"
        /\ validated.called
        /\ validated.boundary_data # None
        /\ NonIntersecting = 0

C25_Witness ==
    /\ report # None
    /\ OverallStatus(report) = "PASS"
    /\ Len(validated.content.gdf.rows) = MaxFeatures
    /\ validated.boundary_data # None

\* C27: in every report produced (by validate_file, or by validate_all_files
\* for a file whose validation raised), total_tests is the length of
\* validation_results, passed_tests is the number of results that passed, and
\* passed_tests + failed_tests = total_tests.
C27_CountsAgree ==
    report # None =>
        /\ report.total_tests = Len(report.validation_results)
        /\ report.passed_tests =
              Cardinality({i \in DOMAIN report.validation_results :
                              report.validation_results[i].passed})
        /\ report.passed_tests + report.failed_tests = report.total_tests

C27_Witness ==
    /\ report # None
    /\ report.passed_tests >= 10
    /\ report.failed_tests >= 3

\* what a step may do to the cache
CacheFrameStep ==
    /\ \A k \in CacheKeys :
          cache'[k] # cache[k] =>
              /\ lastCall' # NoCall
              /\ k = lastCall'.key
              /\ k = Lower(lastCall'.name)
              /\ lastCall'.ret # None
    /\ \A k \in CacheKeys : cache[k] # NoEntry => cache'[k] # NoEntry
    /\ (lastCall' # lastCall /\ lastCall'.ret = None) => cache' = cache

\* C28: a call get_city_boundary(name) changes at most the cache entry keyed
\* by the lower-cased name; no step removes an entry; the entries of other
\* names are unchanged; and a call that resolves nothing (failed or empty
\* search) leaves the whole cache unchanged.
C28_CacheFrame == [][CacheFrameStep]_vars

\* a failed call for a name whose expired entry is still in the cache
C28_Witness ==
    /\ lastCall # NoCall
    /\ lastCall.searches = 1
    /\ lastCall.ret = None
    /\ lastCall.entry # NoEntry
    /\ cache[lastCall.key] = lastCall.entry
    /\ \E k \in CacheKeys : k # lastCall.key /\ cache[k] # NoEntry

(***************************************************************************)
(* Properties of the uploader (SpecUpload)                                 *)
(***************************************************************************)
\* C26: with only_passed = true, every turn of the loop of
\* upload_validated_files, whether it calls the API or not, is for a report
\* whose overall status is PASS, and every report still to be uploaded is PASS.
C26_OnlyPassedUploaded ==
    only_passed =>
        /\ last_upload # None => OverallStatus(last_upload.report) = "PASS"
        /\ \A i \in DOMAIN valid_reports : OverallStatus(valid_reports[i]) = "PASS"

C26_Witness ==
    /\ only_passed
    /\ last_upload # None
    /\ last_upload.attempted
    /\ Len(last_upload.calls) = 3
    /\ upc = "done"

\* the names of the resources of every dataset are pairwise different
NoDuplicateResource(server) ==
    \A n \in DOMAIN server :
        \A i, j \in DOMAIN server[n] : server[n][i] = server[n][j] => i = j

\* a turn of the upload loop: what it may create, given the server before it
UploadFrameStep ==
    /\ NoDuplicateResource(ckan')
    /\ \A n \in DOMAIN ckan :
          /\ n \in DOMAIN ckan'
          /\ Len(ckan'[n]) >= Len(ckan[n])
          /\ SubSeq(ckan'[n], 1, Len(ckan[n])) = ckan[n]
    /\ (upc = "loop" /\ valid_reports' # valid_reports) =>
          \A k \in DOMAIN last_upload'.calls :
              LET c == last_upload'.calls[k]
              IN  /\ c.op = "package_create" => ~DatasetExists(ckan, c.dataset)
                  /\ c.op = "package_update" => DatasetExists(ckan, c.dataset)
                  /\ c.op = "resource_create" =>
                        ~(DatasetExists(ckan, c.dataset)
                          /\ ExistingResource(ckan, c.dataset, c.resource))
                  /\ c.op = "resource_update" =>
                        /\ DatasetExists(ckan, c.dataset)
                        /\ ExistingResource(ckan, c.dataset, c.resource)

\* C29: upload_resource updates the resource of the same name when the
\* dataset holds one and creates one only when it holds none, so that a
\* dataset never holds two resources of one name (one per file and format),
\* whatever uploads were made and whichever of them failed;
\* get_or_create_dataset creates a dataset only when none of that name exists,
\* and updates it otherwise.
C29_UpdateInsteadOfCreate == [][UploadFrameStep]_vars

\* the same file has been uploaded again: its dataset and both its resources
\* were updated, and the dataset holds the two resources
C29_Witness ==
    /\ last_upload # None
    /\ last_upload.attempted
    /\ Len(last_upload.calls) = 3
    /\ \A k \in DOMAIN last_upload.calls :
          last_upload.calls[k].op \in {"package_update", "resource_update"}
    /\ Len(ckan[DatasetName(last_upload.report)]) = 2

(***************************************************************************)
(* Properties of the workflow (SpecWorkflow)                               *)
(***************************************************************************)
InPhases(phase) == \E i \in DOMAIN wf.phases : wf.phases[i] = phase

\* the upload phase is entered only after the validation phase, and never
\* when skip_upload is set
UploadAfterValidation ==
    InPhases("upload") =>
        /\ ~wf.skip_upload
        /\ wf.validation_reports # <<>>
        /\ \E i, j \in DOMAIN wf.phases :
              i < j /\ wf.phases[i] = "validation" /\ wf.phases[j] = "upload"

WorkflowReturned == wpc = "returned"

\* C30 as stated: the upload phase starts only after validation and never
\* when skip_upload is set; whenever no file passed validation and
\* continue_on_validation_failures is false, the workflow returns failed
\* without upload and without reports; whenever the upload phase raised and
\* continue_on_upload_failures is true, reports are generated and the
\* workflow returns completed.
C30_AsStated ==
    wf # None =>
        /\ UploadAfterValidation
        /\ (WorkflowReturned /\ PassedValidation(wf.validation_reports) = 0
                /\ ~wf.continue_on_validation_failures) =>
              /\ wf.status = "failed"
              /\ ~InPhases("upload")
              /\ ~InPhases("reports")
        /\ (WorkflowReturned /\ wf.upload_raised /\ wf.continue_on_upload_failures) =>
              /\ InPhases("reports")
              /\ wf.status = "completed"

\* C30, amended: the upload phase starts only after validation and never when
\* skip_upload is set; when the validation phase produced reports, none of
\* them PASS, and continue_on_validation_failures is false, the workflow
\* returns failed without upload and without reports; when the upload phase
\* raised and continue_on_upload_failures is true, report generation still
\* runs, and the workflow returns completed unless report generation itself
\* raises, in which case it returns failed.
C30_PhaseOrder ==
    wf # None =>
        /\ UploadAfterValidation
        /\ (WorkflowReturned /\ wf.validation_reports # <<>>
                /\ PassedValidation(wf.validation_reports) = 0
                /\ ~wf.continue_on_validation_failures) =>
              /\ wf.status = "failed"
              /\ ~InPhases("upload")
              /\ ~InPhases("reports")
        /\ (WorkflowReturned /\ wf.upload_raised /\ wf.continue_on_upload_failures) =>
              /\ InPhases("reports")
              /\ wf.status = IF wf.reports_raised THEN "failed" ELSE "completed"

\* the upload phase raised, the reports were written and the run completed
C30_Witness ==
    /\ wf # None
    /\ WorkflowReturned
    /\ wf.upload_raised
    /\ wf.continue_on_upload_failures
    /\ wf.phases = <<"discovery", "validation", "upload", "reports">>
    /\ wf.status = "completed"

====
